---- MODULE Spec2Model ----
(***************************************************************************)
(* Model of the cardio-ai prediction-and-explanation service:              *)
(*   src/src/model.py  HeartDiseasePredictor, the global predictor         *)
(*   src/src/api.py    the FastAPI process around it                       *)
(*                                                                         *)
(* Three specifications share the variables:                               *)
(*   Spec      the API process: startup_event, then request handlers       *)
(*   CoreSpec  the predictor used as a library by two threads: one calling *)
(*             load_artifacts(), one calling predict_proba() or            *)
(*             get_shap_values(); a thread switch may fall between any two *)
(*             attribute accesses                                          *)
(*   PureSpec  the pure functions applied to inputs drawn by the initial   *)
(*             state                                                       *)
(*                                                                         *)
(* Numbers: a probability is held in units of 1/10000, oldpeak in tenths,  *)
(* and a true division a / b as the fraction [num |-> a, den |-> b].       *)
(***************************************************************************)
EXTENDS Integers, Sequences, FiniteSets, TLC

VARIABLES
    store,        \* predictor's seven fields: 0 is None, g > 0 the object loaded by load number g
    loads,        \* number of load_artifacts() calls started
    loadStep,     \* position of the running load_artifacts(): 0 none running, k about to load Fields[k]
    loadResult,   \* what the last finished load_artifacts() returned: "none" | "ok" | "failed"
    req,          \* the predict_proba()/get_shap_values() call of the request thread
    started,      \* api.py: startup_event has run (startup_time is set)
    model_loaded, \* api.py: the module global model_loaded
    resp,         \* api.py: the last response sent
    call          \* PureSpec: the pure function call under check

vars == <<store, loads, loadStep, loadResult, req, started, model_loaded, resp, call>>

(***************************************************************************)
(* Bounds of the model.                                                    *)
(***************************************************************************)
\* load_artifacts() is called at most this many times (CoreSpec).
MaxLoads == 2
\* compute_auto_fields is applied to every age 0 .. MaxAge.
MaxAge == 221
\* get_top_features is applied to a feature-name list of this length.
NumFeatures == 3
\* Contribution values range over -MaxContribution .. MaxContribution.
MaxContribution == 2

None == 0

(***************************************************************************)
(* HeartDiseasePredictor: the artifact fields and load_artifacts()         *)
(***************************************************************************)
\* The fields in the order load_artifacts() assigns them.
Fields == <<"model", "scaler", "explainer", "feature_names",
            "numerical_features", "metrics", "cohort_data">>

FieldSet == {Fields[k] : k \in 1..Len(Fields)}

\* __init__: every field None.
EmptyStore == [f \in FieldSet |-> None]

\* One load statement of load_artifacts(): self.<Fields[k]> = <loaded object>.
LoadField(st, k, gen) == [st EXCEPT ![Fields[k]] = gen]

\* load_artifacts() run without interruption from step k on; the load at step
\* failAt raises (failAt = 0: none does).  The except clause logs and returns
\* False; it assigns nothing.
RECURSIVE LoadFrom(_, _, _, _)
LoadFrom(st, k, gen, failAt) ==
    IF k > Len(Fields) THEN [store |-> st, ok |-> TRUE]
    ELSE IF k = failAt THEN [store |-> st, ok |-> FALSE]
    ELSE LoadFrom(LoadField(st, k, gen), k + 1, gen, failAt)

load_artifacts(st, gen, failAt) == LoadFrom(st, 1, gen, failAt)

\* The store as a caller sees it: a load_artifacts() is running, or the last
\* one returned True, or none has run or the last one returned False.
StoreState ==
    IF loadStep # 0 THEN "loading"
    ELSE IF loadResult = "ok" THEN "ready"
    ELSE "unready"

(***************************************************************************)
(* predict_proba() and get_shap_values(): the accesses to the store        *)
(***************************************************************************)
Ops == {"predict_proba", "get_shap_values"}

\* The field the guard tests and the inference call uses.
GuardField(op) == IF op = "predict_proba" THEN "model" ELSE "explainer"

IdleReq == [op |-> "none", pc |-> "idle", err |-> "none", reads |-> <<>>,
            storeAtCall |-> "unready",
            reachedScaler |-> FALSE, reachedModel |-> FALSE, reachedExplainer |-> FALSE]

Raise(r, e) == [r EXCEPT !.pc = "done", !.err = e]

Read(r, st, f) == [r EXCEPT !.reads = Append(@, <<f, st[f]>>)]

\* The call and its guard: `if self.model is None: raise ValueError(...)`
\* (`self.explainer` in get_shap_values).  atCall is the state of the store
\* when the call is made (StoreState below), kept with the call.
Guard(st, op, atCall) ==
    LET r == [IdleReq EXCEPT !.op = op, !.storeAtCall = atCall]
    IN  IF st[GuardField(op)] = None
        THEN Raise(r, "NotReady")
        ELSE [Read(r, st, GuardField(op)) EXCEPT !.pc = "scaler"]

\* One attribute access of the body, in evaluation order:
\*   input_scaled[self.numerical_features] =
\*       self.scaler.transform(input_df[self.numerical_features])
\*   self.model.predict_proba(input_scaled) / self.explainer.shap_values(input_scaled)
ReqStep(st, r) ==
    CASE r.pc = "scaler" ->
            IF st["scaler"] = None
            THEN Raise(r, "AttributeError")
            ELSE [Read(r, st, "scaler") EXCEPT !.pc = "columns"]
      [] r.pc = "columns" ->
            IF st["numerical_features"] = None
            THEN Raise(r, "KeyError")
            ELSE [Read(r, st, "numerical_features") EXCEPT
                      !.pc = "assign", !.reachedScaler = TRUE]
      [] r.pc = "assign" ->
            IF st["numerical_features"] = None
            THEN Raise(r, "KeyError")
            ELSE [Read(r, st, "numerical_features") EXCEPT !.pc = "infer"]
      [] r.pc = "infer" ->
            IF st[GuardField(r.op)] = None
            THEN Raise(r, "AttributeError")
            ELSE [Read(r, st, GuardField(r.op)) EXCEPT
                      !.pc = "done",
                      !.reachedModel = (r.op = "predict_proba"),
                      !.reachedExplainer = (r.op = "get_shap_values")]
      [] OTHER -> r

\* A call run to its end with no other thread in between.
RECURSIVE RunReq(_, _)
RunReq(st, r) == IF r.pc = "done" THEN r ELSE RunReq(st, ReqStep(st, r))

(***************************************************************************)
(* compute_auto_fields()                                                   *)
(***************************************************************************)
\* The 13 raw measurements of a patient record.
RawFields == {"age", "sex", "cp", "trestbps", "chol", "fbs", "restecg",
              "thalach", "exang", "oldpeak", "slope", "ca", "thal"}

\* The patient of the specification's worked scenario (oldpeak 2.3).
BasePatient ==
    [age |-> 63, sex |-> 1, cp |-> 0, trestbps |-> 145, chol |-> 233, fbs |-> 1,
     restecg |-> 0, thalach |-> 150, exang |-> 0, oldpeak |-> 23, slope |-> 0,
     ca |-> 0, thal |-> 1]

\* Mutant: the first boundary tested with <= (40 falls in the lower bucket).
age_group_le(age) ==
    IF age <= 40 THEN 0
    ELSE IF age < 55 THEN 1
    ELSE IF age < 65 THEN 2
    ELSE 3

age_group(age) ==
    IF age < 40 THEN 0
    ELSE IF age < 55 THEN 1
    ELSE IF age < 65 THEN 2
    ELSE 3

\* Mutant: the severity map not inverted.
cp_severity_map_uninverted == (0 :> 1) @@ (1 :> 2) @@ (2 :> 3) @@ (3 :> 4)

\* cp_severity_map = {0: 4, 1: 3, 2: 2, 3: 1}
cp_severity_map == (0 :> 4) @@ (1 :> 3) @@ (2 :> 2) @@ (3 :> 1)

bp_category(bp) ==
    IF bp < 120 THEN 0
    ELSE IF bp < 130 THEN 1
    ELSE IF bp < 140 THEN 2
    ELSE 3

chol_risk(chol) ==
    IF chol < 200 THEN 0
    ELSE IF chol < 240 THEN 1
    ELSE 2

\* Python's a / b for b # 0, kept as the fraction.
TrueDiv(a, b) == [num |-> a, den |-> b]

\* Mutant: no copy is taken; the name is bound to the caller's object.
CopyAliased(obj) == [shared |-> TRUE, data |-> obj]

\* patient_dict.copy() / input_df.copy(): a new object with the same content;
\* shared tells whether a write to it is a write to the caller's object.
Copy(obj) == [shared |-> FALSE, data |-> obj]

\* The caller's object after `written` has been stored through the copy.
CallerSees(original, copy, written) ==
    IF copy.shared THEN written ELSE original

\* enhanced_patient = patient_dict.copy(), then the seven derived keys in the
\* order the code assigns them.  A chest-pain code missing from the map raises
\* KeyError and a zero divisor ZeroDivisionError; either exception leaves the
\* function with no value.  caller is the caller's patient_dict afterwards.
compute_auto_fields(patient_dict) ==
    LET age  == patient_dict.age
        chol == patient_dict.chol
        enhanced_patient == Copy(patient_dict)
        line83 == enhanced_patient.data @@ [age_group |-> age_group(age)]
        line113 == IF patient_dict.cp \in DOMAIN cp_severity_map
                   THEN line83 @@
                        [cp_severity |-> cp_severity_map[patient_dict.cp],
                         bp_category |-> bp_category(patient_dict.trestbps),
                         chol_risk   |-> chol_risk(chol)]
                   ELSE line83
        line122 == IF 220 - age # 0
                   THEN line113 @@
                        [hr_achievement       |-> TrueDiv(patient_dict.thalach, 220 - age),
                         age_chol_interaction |-> TrueDiv(age * chol, 1000),
                         cp_exang_interaction |-> patient_dict.cp * patient_dict.exang]
                   ELSE line113
    IN  IF patient_dict.cp \notin DOMAIN cp_severity_map
        THEN [error |-> "KeyError",
              caller |-> CallerSees(patient_dict, enhanced_patient, line83)]
        ELSE IF 220 - age = 0
        THEN [error |-> "ZeroDivisionError",
              caller |-> CallerSees(patient_dict, enhanced_patient, line113)]
        ELSE [error |-> "none",
              value |-> line122,
              caller |-> CallerSees(patient_dict, enhanced_patient, line122)]

(***************************************************************************)
(* predict_proba() and get_shap_values(): scaling the input frame          *)
(***************************************************************************)
\* self.scaler.transform on one value: the scaler loaded by load number g is
\* taken to shift by g, so that no scaler is the identity and no two agree.
Transform(scaler, x) == x - scaler

\* input_scaled = input_df.copy()
\* input_scaled[self.numerical_features] =
\*     self.scaler.transform(input_df[self.numerical_features])
\* on a frame of one row.  input_df is the caller's frame afterwards.
scale_input(input_df, numerical_features, scaler) ==
    LET input_scaled == Copy(input_df)
        written == [c \in DOMAIN input_scaled.data |->
                       IF c \in numerical_features
                       THEN Transform(scaler, input_df[c])
                       ELSE input_scaled.data[c]]
    IN  [input_df |-> CallerSees(input_df, input_scaled, written),
         input_scaled |-> written]

(***************************************************************************)
(* predict_proba(): risk class and clinical summary                        *)
(***************************************************************************)
\* Mutant: the tier boundaries tested with <=.
risk_class_le(probability) ==
    IF probability <= 3000 THEN "Low Risk"
    ELSE IF probability <= 7000 THEN "Moderate Risk"
    ELSE "High Risk"

\* `if probability < 0.3 ... elif probability < 0.7 ... else`, in 1/10000.
risk_class(probability) ==
    IF probability < 3000 THEN "Low Risk"
    ELSE IF probability < 7000 THEN "Moderate Risk"
    ELSE "High Risk"

\* Mutant: the thal test placed before the ca test.
high_risk_factors_reordered(patient_data) ==
    (IF patient_data.thal = 3 THEN <<"reversible perfusion defect">> ELSE <<>>) \o
    (IF patient_data.ca >= 2 THEN <<"multi-vessel coronary disease">> ELSE <<>>) \o
    (IF patient_data.exang = 1 THEN <<"exercise-induced angina">> ELSE <<>>) \o
    (IF patient_data.slope = 2 THEN <<"downsloping ST segment">> ELSE <<>>) \o
    (IF patient_data.cp = 0 THEN <<"typical angina">> ELSE <<>>)

\* high_risk_factors, appended in the order of the five tests.
high_risk_factors(patient_data) ==
    (IF patient_data.ca >= 2 THEN <<"multi-vessel coronary disease">> ELSE <<>>) \o
    (IF patient_data.thal = 3 THEN <<"reversible perfusion defect">> ELSE <<>>) \o
    (IF patient_data.exang = 1 THEN <<"exercise-induced angina">> ELSE <<>>) \o
    (IF patient_data.slope = 2 THEN <<"downsloping ST segment">> ELSE <<>>) \o
    (IF patient_data.cp = 0 THEN <<"typical angina">> ELSE <<>>)

\* high_risk_factors[:2]
FirstTwo(s) == SubSeq(s, 1, IF Len(s) < 2 THEN Len(s) ELSE 2)

\* Mutant: the summary's tier boundaries tested with >.
_generate_clinical_summary_gt(probability, patient_data) ==
    IF probability > 7000
    THEN [tier |-> "High Risk", risk_pct |-> probability,
          text |-> <<"likely driven by">> \o
                   (IF high_risk_factors(patient_data) # <<>>
                    THEN FirstTwo(high_risk_factors(patient_data))
                    ELSE <<"multiple adverse factors">>)]
    ELSE IF probability > 3000
    THEN [tier |-> "Moderate Risk", risk_pct |-> probability,
          text |-> <<"further evaluation recommended">>]
    ELSE [tier |-> "Low Risk", risk_pct |-> probability,
          text |-> <<"maintain heart-healthy lifestyle">>]

\* The summary sentence as its template and the values filled in: the tier
\* heading, risk_pct (probability * 100, here in 1/100 of a percent) and the
\* phrases after the colon (for High Risk the joined factors).
_generate_clinical_summary(probability, patient_data) ==
    LET factors == high_risk_factors(patient_data)
    IN  IF probability >= 7000
        THEN [tier |-> "High Risk", risk_pct |-> probability,
              text |-> <<"likely driven by">> \o
                       (IF factors # <<>> THEN FirstTwo(factors)
                        ELSE <<"multiple adverse factors">>)]
        ELSE IF probability >= 3000
        THEN [tier |-> "Moderate Risk", risk_pct |-> probability,
              text |-> <<"further evaluation recommended">>]
        ELSE [tier |-> "Low Risk", risk_pct |-> probability,
              text |-> <<"maintain heart-healthy lifestyle">>]

\* predict_proba() from the classifier's answer on: (probability, risk_class,
\* clinical_summary); patient_data is input_df.iloc[0].
predict_result(probability, patient_data) ==
    [probability |-> probability,
     risk_class |-> risk_class(probability),
     clinical_summary |-> _generate_clinical_summary(probability, patient_data)]

(***************************************************************************)
(* get_top_features()                                                      *)
(***************************************************************************)
Abs(x) == IF x < 0 THEN -x ELSE x

\* One entry of feature_contributions.
Contribution(feature_name, contribution) ==
    [feature |-> feature_name,
     shap_value |-> contribution,
     abs_contribution |-> Abs(contribution),
     impact |-> IF contribution > 0 THEN "Increases Risk" ELSE "Decreases Risk"]

\* Mutant: the sort key is the signed value (abs forgotten).
InsertDescSigned(sorted, x) ==
    LET k == Cardinality({i \in 1..Len(sorted) : sorted[i].shap_value >= x.shap_value})
    IN  SubSeq(sorted, 1, k) \o <<x>> \o SubSeq(sorted, k + 1, Len(sorted))

\* Mutant: an equal key goes before the entries already placed (what an
\* ascending sort followed by a reversal does).
InsertDescBeforeTies(sorted, x) ==
    LET k == Cardinality({i \in 1..Len(sorted) :
                             sorted[i].abs_contribution > x.abs_contribution})
    IN  SubSeq(sorted, 1, k) \o <<x>> \o SubSeq(sorted, k + 1, Len(sorted))

\* list.sort(key=abs_contribution, reverse=True) is stable: an entry comes
\* after every entry placed before it whose key is not smaller.
InsertDesc(sorted, x) ==
    LET k == Cardinality({i \in 1..Len(sorted) :
                             sorted[i].abs_contribution >= x.abs_contribution})
    IN  SubSeq(sorted, 1, k) \o <<x>> \o SubSeq(sorted, k + 1, Len(sorted))

RECURSIVE SortDesc(_)
SortDesc(entries) ==
    IF entries = <<>> THEN <<>>
    ELSE InsertDesc(SortDesc(SubSeq(entries, 1, Len(entries) - 1)),
                    entries[Len(entries)])

\* feature_contributions[:top_n] for top_n >= 0.
Slice(entries, top_n) ==
    SubSeq(entries, 1, IF top_n < Len(entries) THEN top_n ELSE Len(entries))

\* get_top_features(shap_values, top_n) with self.feature_names = feature_names;
\* shap_row is shap_values[0].  The loop runs over the names: shap_values[0, i]
\* raises IndexError when the row is shorter, and values past the last name
\* are never read.
get_top_features(feature_names, shap_row, top_n) ==
    IF Len(shap_row) < Len(feature_names)
    THEN [error |-> "IndexError"]
    ELSE [error |-> "none",
          value |-> Slice(SortDesc([i \in 1..Len(feature_names) |->
                                       Contribution(feature_names[i], shap_row[i])]),
                          top_n)]

NoResp == [route |-> "none", status |-> 0, core |-> 0, body |-> [detail |-> "none"]]
NoCall == [op |-> "none", done |-> TRUE]

(***************************************************************************)
(* CoreSpec: a loader thread and a request thread on the global predictor  *)
(***************************************************************************)
\* The module globals after import: predictor = HeartDiseasePredictor(),
\* model_loaded = False, startup_time = None.
Init ==
    /\ store = EmptyStore
    /\ loads = 0
    /\ loadStep = 0
    /\ loadResult = "none"
    /\ req = IdleReq
    /\ started = FALSE
    /\ model_loaded = FALSE
    /\ resp = NoResp
    /\ call = NoCall

apiVars == <<started, model_loaded, resp>>

\* load_artifacts() is entered.
LoadBegin ==
    /\ loadStep = 0
    /\ loads < MaxLoads
    /\ loads' = loads + 1
    /\ loadStep' = 1
    /\ UNCHANGED <<store, loadResult, req, apiVars, call>>

\* The load at the current step succeeds and is assigned; after the last one
\* load_artifacts() returns True.
LoadStepOk ==
    /\ loadStep \in 1..Len(Fields)
    /\ store' = LoadField(store, loadStep, loads)
    /\ IF loadStep = Len(Fields)
       THEN loadStep' = 0 /\ loadResult' = "ok"
       ELSE loadStep' = loadStep + 1 /\ UNCHANGED loadResult
    /\ UNCHANGED <<loads, req, apiVars, call>>

\* The load at the current step raises: logged, load_artifacts() returns False.
LoadStepFail ==
    /\ loadStep \in 1..Len(Fields)
    /\ loadStep' = 0
    /\ loadResult' = "failed"
    /\ UNCHANGED <<store, loads, req, apiVars, call>>

\* The request thread calls predict_proba() or get_shap_values().
CoreCall ==
    /\ req.pc \in {"idle", "done"}
    /\ \E op \in Ops : req' = Guard(store, op, StoreState)
    /\ UNCHANGED <<store, loads, loadStep, loadResult, apiVars, call>>

\* The request thread's next attribute access.
CoreStep ==
    /\ req.pc \notin {"idle", "done"}
    /\ req' = ReqStep(store, req)
    /\ UNCHANGED <<store, loads, loadStep, loadResult, apiVars, call>>

CoreNext == LoadBegin \/ LoadStepOk \/ LoadStepFail \/ CoreCall \/ CoreStep

CoreSpec == Init /\ [][CoreNext]_vars

(***************************************************************************)
(* api.py: request validation                                              *)
(***************************************************************************)
\* PatientInput's Field(ge=, le=) bounds (oldpeak 0.0 .. 10.1 in tenths).
FieldRange ==
    [age |-> <<18, 101>>, sex |-> <<0, 1>>, cp |-> <<0, 3>>,
     trestbps |-> <<80, 301>>, chol |-> <<100, 601>>, fbs |-> <<0, 1>>,
     restecg |-> <<0, 2>>, thalach |-> <<60, 221>>, exang |-> <<0, 1>>,
     oldpeak |-> <<0, 101>>, slope |-> <<0, 2>>, ca |-> <<0, 3>>,
     thal |-> <<1, 3>>]

InRange(patient, f) ==
    FieldRange[f][1] <= patient[f] /\ patient[f] <= FieldRange[f][2]

\* Mutant: the validator accepts every heart rate.
validate_hr_vs_age_off(patient) == TRUE

\* validate_hr_vs_age runs on a thalach that is in range; info.data holds age
\* only when age itself was valid (`if age and ...`).
validate_hr_vs_age(patient) ==
    ~ (InRange(patient, "age") /\ patient.age # 0
       /\ patient.thalach > (220 - patient.age) + 20)

\* The body parses as a PatientInput.
PatientInputValid(patient) ==
    /\ \A f \in RawFields : InRange(patient, f)
    /\ validate_hr_vs_age(patient)

(***************************************************************************)
(* The request pipeline behind /predict, /shap and /positions              *)
(***************************************************************************)
\* predictor.get_metrics(): the stored metrics, or a failure when unset.
get_metrics(st) ==
    IF st["metrics"] = None THEN [error |-> "NotReady"] ELSE [error |-> "none"]

\* The scalers a call has handed a frame to: the scaler it read, once its
\* transform has been called.
Scalings(r) == IF r.reachedScaler THEN <<r.reads[2][2]>> ELSE <<>>

\* predict_heart_disease(patient): derive, score, explain, rank, position;
\* the first failure ends it, at the stage named.  probability is the
\* classifier's answer; derived is what compute_auto_fields did and scalings
\* the scalers used on the way, in order.
predict_heart_disease(st, patient, probability) ==
    LET d == compute_auto_fields(patient)
        s == RunReq(st, Guard(st, "predict_proba", StoreState))
        e == RunReq(st, Guard(st, "get_shap_values", StoreState))
        Failed(stage, error, scalings) ==
            [error |-> error, stage |-> stage, derived |-> d, scalings |-> scalings]
    IN  IF d.error # "none" THEN Failed("derive", d.error, <<>>)
        ELSE IF s.err # "none" THEN Failed("score", s.err, Scalings(s))
        ELSE IF e.err # "none"
        THEN Failed("explain", e.err, Scalings(s) \o Scalings(e))
        ELSE IF st["feature_names"] = None
        THEN Failed("rank", "TypeError", Scalings(s) \o Scalings(e))
        ELSE IF st["cohort_data"] = None
        THEN Failed("position", "NotReady", Scalings(s) \o Scalings(e))
        ELSE [error |-> "none", stage |-> "done", derived |-> d,
              scalings |-> Scalings(s) \o Scalings(e),
              prediction |-> predict_result(probability, d.value)]

(***************************************************************************)
(* Spec: the API process                                                   *)
(***************************************************************************)
\* Request bodies: the scenario patient with age and thalach around the
\* limits of the validation.
ApiPatients ==
    {[BasePatient EXCEPT !.age = a, !.thalach = t] :
        a \in {17, 18, 63, 101, 102},
        t \in {59, 60, 139, 140, 177, 178, 222}}

\* Classifier answers in the API process, one per tier.
ApiProbabilities == {1000, 5000, 9000}

coreVars == <<loads, loadStep, loadResult, req, call>>

Respond(route, status, core, body) ==
    resp' = [route |-> route, status |-> status, core |-> core, body |-> body]

\* A body that does not parse: FastAPI answers 422 and calls no handler.
Unprocessable(route, patient) ==
    /\ ~PatientInputValid(patient)
    /\ Respond(route, 422, 0, [detail |-> "validation error", patient |-> patient])

\* The handler's call of predict_heart_disease and what is sent: the handler's
\* answer, or 500 when the call raises.
Pipeline(route, patient) ==
    \E probability \in ApiProbabilities :
        LET r == predict_heart_disease(store, patient, probability)
        IN  IF r.error # "none"
            THEN Respond(route, 500, 1,
                         [detail |-> r.error, patient |-> patient,
                          stage |-> r.stage, derived |-> r.derived,
                          scalings |-> r.scalings])
            ELSE Respond(route, 200, 1,
                         [detail |-> "ok", patient |-> patient,
                          stage |-> r.stage, derived |-> r.derived,
                          scalings |-> r.scalings,
                          prediction |-> r.prediction])

\* startup_event: model_loaded = initialize_model(), before any request is
\* served.  load_artifacts() catches every Exception, so the handler's own
\* except branch is never taken.
startup_event ==
    /\ ~started
    /\ \E failAt \in 0..Len(Fields) :
          LET r == load_artifacts(store, loads + 1, failAt)
          IN  /\ store' = r.store
              /\ model_loaded' = r.ok
              /\ loadResult' = IF r.ok THEN "ok" ELSE "failed"
    /\ loads' = loads + 1
    /\ started' = TRUE
    /\ UNCHANGED <<loadStep, req, resp, call>>

\* GET /
root ==
    /\ started
    /\ Respond("/", 200, 0, [detail |-> "ok"])
    /\ UNCHANGED <<store, coreVars, started, model_loaded>>

\* GET /health
health_check ==
    /\ started
    /\ Respond("/health", 200, 0,
               [detail |-> "ok",
                status |-> IF store["model"] # None THEN "ok" ELSE "error",
                model_loaded |-> store["model"] # None])
    /\ UNCHANGED <<store, coreVars, started, model_loaded>>

\* GET /metrics
get_model_metrics ==
    /\ started
    /\ IF ~model_loaded
       THEN Respond("/metrics", 503, 0, [detail |-> "Model not loaded"])
       ELSE IF get_metrics(store).error # "none"
       THEN Respond("/metrics", 500, 0, [detail |-> "Metrics retrieval failed"])
       ELSE Respond("/metrics", 200, 0, [detail |-> "ok"])
    /\ UNCHANGED <<store, coreVars, started, model_loaded>>

\* Mutant: /predict retries the load when the model is not loaded.
predict_retrying ==
    /\ started
    /\ \E patient \in ApiPatients, failAt \in 0..Len(Fields) :
          /\ PatientInputValid(patient)
          /\ IF ~model_loaded
             THEN LET r == load_artifacts(store, loads + 1, failAt)
                  IN  /\ store' = r.store
                      /\ model_loaded' = r.ok
                      /\ loads' = loads + 1
                      /\ loadResult' = IF r.ok THEN "ok" ELSE "failed"
                      /\ Respond("/predict", 503, 0,
                                 [detail |-> "Model not loaded", patient |-> patient])
             ELSE /\ Pipeline("/predict", patient)
                  /\ UNCHANGED <<store, model_loaded, loads, loadResult>>
    /\ UNCHANGED <<loadStep, req, call, started>>

\* POST /predict
predict ==
    /\ started
    /\ \E patient \in ApiPatients :
          \/ Unprocessable("/predict", patient)
          \/ /\ PatientInputValid(patient)
             /\ IF ~model_loaded
                THEN Respond("/predict", 503, 0,
                             [detail |-> "Model not loaded", patient |-> patient])
                ELSE Pipeline("/predict", patient)
    /\ UNCHANGED <<store, coreVars, started, model_loaded>>

\* POST /shap
get_shap_explanation ==
    /\ started
    /\ \E patient \in ApiPatients :
          \/ Unprocessable("/shap", patient)
          \/ /\ PatientInputValid(patient)
             /\ Pipeline("/shap", patient)
    /\ UNCHANGED <<store, coreVars, started, model_loaded>>

\* POST /positions
get_feature_positions_route ==
    /\ started
    /\ \E patient \in ApiPatients :
          \/ Unprocessable("/positions", patient)
          \/ /\ PatientInputValid(patient)
             /\ Pipeline("/positions", patient)
    /\ UNCHANGED <<store, coreVars, started, model_loaded>>

Next ==
    \/ startup_event
    \/ root
    \/ health_check
    \/ get_model_metrics
    \/ predict
    \/ get_shap_explanation
    \/ get_feature_positions_route

Spec == Init /\ [][Next]_vars

(***************************************************************************)
(* PureSpec: the pure functions on inputs drawn by the initial state       *)
(***************************************************************************)

Ages == 0..MaxAge
BpPoints == {80, 119, 120, 121, 129, 130, 139, 140, 145, 301}
CholPoints == {100, 199, 200, 201, 233, 239, 240, 601}
ThalachPoints == {60, 150}

\* Records given to compute_auto_fields: the scenario patient with the fields
\* that meet in one derived value varied together (age with chol and thalach;
\* cp with exang; trestbps).
DerivePatients ==
    {[BasePatient EXCEPT !.age = a, !.chol = c, !.thalach = t] :
        a \in Ages, c \in CholPoints, t \in ThalachPoints}
    \cup
    {[BasePatient EXCEPT !.trestbps = b, !.cp = k, !.exang = e] :
        b \in BpPoints, k \in 0..3, e \in 0..1}

\* Classifier answers: every whole percent and the neighbours of the tier
\* boundaries, in 1/10000.
Probabilities ==
    {100 * n : n \in 0..100} \cup {1, 2999, 3001, 6999, 7001, 9999}

\* Rows given to the summary: the five fields it reads, over their ranges.
SummaryPatients ==
    {[BasePatient EXCEPT !.ca = a, !.thal = t, !.exang = e, !.slope = s, !.cp = k] :
        a \in 0..3, t \in 1..3, e \in 0..1, s \in 0..2, k \in 0..3}

\* The loaded feature-name list.
FeatureNames == [i \in 1..NumFeatures |-> "f" \o ToString(i)]

\* Rows the attribution engine may return: one value per feature, one value
\* short, or one value more.
ShapRows ==
    UNION {[1..n -> (-MaxContribution)..MaxContribution] :
              n \in (NumFeatures - 1)..(NumFeatures + 1)}

TopNs == 0..(NumFeatures + 1)

\* Frames given to predict_proba and get_shap_values: derived rows.
InputFrames == {compute_auto_fields(p).value : p \in SummaryPatients}

\* The loaded numerical-feature list: any set of the whole-number columns.
NumericalFeatureLists == SUBSET {"age", "trestbps", "chol", "thalach", "oldpeak"}

\* The loaded scaler: the one of load number g.
Scalers == 1..MaxLoads

NoOut == [error |-> "pending"]

PureInit ==
    /\ store = EmptyStore
    /\ loads = 0
    /\ loadStep = 0
    /\ loadResult = "none"
    /\ req = IdleReq
    /\ started = FALSE
    /\ model_loaded = FALSE
    /\ resp = NoResp
    /\ \/ \E p \in DerivePatients :
            call = [op |-> "compute_auto_fields", done |-> FALSE,
                    patient |-> p, out |-> NoOut]
       \/ \E pr \in Probabilities, p \in SummaryPatients :
            call = [op |-> "predict_proba", done |-> FALSE,
                    probability |-> pr, patient |-> p, out |-> NoOut]
       \/ \E row \in ShapRows, n \in TopNs :
            call = [op |-> "get_top_features", done |-> FALSE,
                    feature_names |-> FeatureNames, shap_row |-> row,
                    top_n |-> n, out |-> NoOut]
       \/ \E fn \in Ops, df \in InputFrames, nf \in NumericalFeatureLists,
             sc \in Scalers :
            call = [op |-> "scale_input", done |-> FALSE, fn |-> fn,
                    input_df |-> df, numerical_features |-> nf, scaler |-> sc,
                    out |-> NoOut]

notCall == <<store, loads, loadStep, loadResult, req, started, model_loaded, resp>>

\* compute_auto_fields(patient) is called and returns or raises.
Derive ==
    /\ call.op = "compute_auto_fields" /\ ~call.done
    /\ call' = [call EXCEPT !.done = TRUE, !.out = compute_auto_fields(call.patient)]
    /\ UNCHANGED notCall

\* predict_proba() once the classifier has answered call.probability.
Score ==
    /\ call.op = "predict_proba" /\ ~call.done
    /\ call' = [call EXCEPT !.done = TRUE,
                            !.out = predict_result(call.probability, call.patient)]
    /\ UNCHANGED notCall

\* get_top_features(shap_values, top_n) is called and returns or raises.
TopFeatures ==
    /\ call.op = "get_top_features" /\ ~call.done
    /\ call' = [call EXCEPT !.done = TRUE,
                            !.out = get_top_features(call.feature_names,
                                                     call.shap_row, call.top_n)]
    /\ UNCHANGED notCall

\* The two scaling lines of predict_proba() or get_shap_values().
ScaleInput ==
    /\ call.op = "scale_input" /\ ~call.done
    /\ call' = [call EXCEPT !.done = TRUE,
                            !.out = scale_input(call.input_df,
                                                call.numerical_features, call.scaler)]
    /\ UNCHANGED notCall

PureNext == Derive \/ Score \/ TopFeatures \/ ScaleInput

PureSpec == PureInit /\ [][PureNext]_vars

(***************************************************************************)
(* Properties of the artifact store under load and use (CoreSpec)          *)
(***************************************************************************)
\* C1: whenever load_artifacts() has returned failure, every one of the seven
\* artifact fields is None, the ones loaded before the failing step included.
C1_FailedLoadLeavesAllUnset ==
    (loadStep = 0 /\ loadResult = "failed") =>
        \A f \in FieldSet : store[f] = None

\* C2: a predict_proba() or get_shap_values() call made while the store has
\* not successfully loaded (never loaded, or the last load returned failure)
\* fails with the not-ready error and reaches neither the scaler, nor the
\* classifier, nor the attribution engine.
C2_NotReadyRejected ==
    (req.op \in Ops /\ req.storeAtCall = "unready") =>
        /\ req.pc = "done" /\ req.err = "NotReady"
        /\ ~req.reachedScaler /\ ~req.reachedModel /\ ~req.reachedExplainer

\* C5: the artifacts read by a call made on a loaded store all come from one
\* load generation, also when load_artifacts() runs again while the call is
\* in flight.
C5_SingleGeneration ==
    req.storeAtCall = "ready" =>
        \A i, j \in 1..Len(req.reads) : req.reads[i][2] = req.reads[j][2]

(***************************************************************************)
(* Properties of the API process (Spec)                                    *)
(***************************************************************************)
PredictionRoutes == {"/predict", "/shap", "/positions"}

\* C3: while model_loaded is false, every request to /predict, /shap or
\* /positions that parses is answered 503 without any call into the core.
C3_UnreadyRejected ==
    (started /\ ~model_loaded /\ resp.route \in PredictionRoutes
        /\ resp.status # 422) =>
        (resp.status = 503 /\ resp.core = 0)

\* The service-level state of the state machine
\* UNINITIALIZED -> READY | LOAD_FAILED.
ServiceState ==
    IF ~started THEN "UNINITIALIZED"
    ELSE IF model_loaded THEN "READY"
    ELSE "LOAD_FAILED"

\* C4: one load attempt is made, at startup; LOAD_FAILED and READY are never
\* left, and nothing after startup loads again or touches the store.
C4_LoadOnceTerminal ==
    [][ /\ (ServiceState = "UNINITIALIZED") => (loads = 0)
        /\ (ServiceState = "LOAD_FAILED") => (ServiceState' = "LOAD_FAILED")
        /\ (ServiceState = "READY") => (ServiceState' = "READY")
        /\ started' => (loads' = 1)
        /\ started => (loads' = loads /\ store' = store) ]_vars

\* The service is LOAD_FAILED and has answered a request after that.
C4_Witness ==
    /\ ServiceState = "LOAD_FAILED" /\ loads = 1
    /\ resp.route = "/predict" /\ resp.status = 503

(***************************************************************************)
(* Properties of the pure functions (PureSpec)                             *)
(***************************************************************************)
Derived == call.op = "compute_auto_fields" /\ call.done
Scored == call.op = "predict_proba" /\ call.done

\* The number of thresholds in ts that x has reached.
Reached(ts, x) == Cardinality({t \in ts : t <= x})

\* C6: the risk class is Low exactly when p < 0.30, Moderate exactly when
\* 0.30 <= p < 0.70 and High exactly when p >= 0.70; it is one of the three.
C6_RiskTiers ==
    Scored =>
        LET p  == call.probability
            rc == call.out.risk_class
        IN  /\ rc \in {"Low Risk", "Moderate Risk", "High Risk"}
            /\ (rc = "Low Risk") <=> (p < 3000)
            /\ (rc = "Moderate Risk") <=> (3000 <= p /\ p < 7000)
            /\ (rc = "High Risk") <=> (p >= 7000)

\* A probability of exactly 0.70 has been classified.
C6_Witness ==
    Scored /\ call.probability = 7000 /\ call.out.risk_class = "High Risk"

\* C7: whenever compute_auto_fields returns, age_group is the number of the
\* thresholds 40/55/65 the age has reached, bp_category that of 120/130/140
\* for trestbps and chol_risk that of 200/240 for chol (a value equal to a
\* threshold is in the higher bucket), and no smaller input gets a higher
\* bucket.
C7_Buckets ==
    (Derived /\ call.out.error = "none") =>
        LET p == call.patient
            v == call.out.value
        IN  /\ v.age_group = Reached({40, 55, 65}, p.age)
            /\ v.bp_category = Reached({120, 130, 140}, p.trestbps)
            /\ v.chol_risk = Reached({200, 240}, p.chol)
            /\ \A a \in 0..p.age : age_group(a) <= v.age_group
            /\ \A b \in 0..p.trestbps : bp_category(b) <= v.bp_category
            /\ \A c \in 0..p.chol : chol_risk(c) <= v.chol_risk

\* A patient aged exactly 40 with cholesterol exactly 240 has been derived.
C7_Witness ==
    /\ Derived /\ call.out.error = "none"
    /\ call.patient.age = 40 /\ call.patient.chol = 240
    /\ call.out.value.age_group = 1 /\ call.out.value.chol_risk = 2

ScenarioDerived == Derived /\ call.patient = BasePatient

\* C8 as stated: the scenario patient derives to age_group 2, cp_severity 4,
\* bp_category 2, chol_risk 1 and hr_achievement 150/157.
C8_ScenarioAsStated ==
    ScenarioDerived =>
        /\ call.out.error = "none"
        /\ call.out.value.age_group = 2
        /\ call.out.value.cp_severity = 4
        /\ call.out.value.bp_category = 2
        /\ call.out.value.chol_risk = 1
        /\ call.out.value.hr_achievement.num * 157 = 150 * call.out.value.hr_achievement.den

\* C8 amended: the scenario patient (trestbps 145, past the last threshold
\* 140) derives to age_group 2, cp_severity 4, bp_category 3, chol_risk 1 and
\* hr_achievement 150/157.
C8_Scenario ==
    ScenarioDerived =>
        /\ call.out.error = "none"
        /\ call.out.value.age_group = 2
        /\ call.out.value.cp_severity = 4
        /\ call.out.value.bp_category = 3
        /\ call.out.value.chol_risk = 1
        /\ call.out.value.hr_achievement.num * 157 = 150 * call.out.value.hr_achievement.den
        /\ call.out.value.hr_achievement.den > 0

\* The scenario patient has been derived.
C8_Witness == ScenarioDerived /\ call.out.error = "none"

\* C9: compute_auto_fields with age = 220 fails with an explicit InvalidInput
\* error (no derived vector, no raw division-by-zero error).
C9_Age220InvalidInput ==
    (Derived /\ call.patient.age = 220) => call.out.error = "InvalidInput"

\* The indicators in their priority order, and whether the row shows each.
Indicators ==
    <<"multi-vessel coronary disease", "reversible perfusion defect",
      "exercise-induced angina", "downsloping ST segment", "typical angina">>

Shows(row, i) ==
    CASE i = 1 -> row.ca >= 2
      [] i = 2 -> row.thal = 3
      [] i = 3 -> row.exang = 1
      [] i = 4 -> row.slope = 2
      [] i = 5 -> row.cp = 0

\* The first n indicators, in priority order, that the row shows.
RECURSIVE FirstShown(_, _, _)
FirstShown(row, i, n) ==
    IF i > Len(Indicators) \/ n = 0 THEN <<>>
    ELSE IF Shows(row, i) THEN <<Indicators[i]>> \o FirstShown(row, i + 1, n - 1)
    ELSE FirstShown(row, i + 1, n)

\* C10: in the High tier the summary names exactly the first min(2, k) of the
\* k indicators the row shows, in the priority order ca >= 2, thal = 3,
\* exang = 1, slope = 2, cp = 0, and the generic phrase when k = 0; in the
\* Moderate and Low tiers the phrase is fixed whatever the indicators.
C10_SummaryIndicators ==
    Scored =>
        LET s     == call.out.clinical_summary
            named == FirstShown(call.patient, 1, 2)
        IN  /\ call.out.risk_class = "High Risk" =>
                 s.text = <<"likely driven by">> \o
                          (IF named = <<>> THEN <<"multiple adverse factors">> ELSE named)
            /\ call.out.risk_class = "Moderate Risk" =>
                 s.text = <<"further evaluation recommended">>
            /\ call.out.risk_class = "Low Risk" =>
                 s.text = <<"maintain heart-healthy lifestyle">>

\* A High-tier row showing three indicators has been summarised with the
\* first two named.
C10_Witness ==
    /\ Scored /\ call.out.risk_class = "High Risk"
    /\ call.patient.ca >= 2 /\ call.patient.thal = 3 /\ call.patient.exang = 1
    /\ call.out.clinical_summary.text =
         <<"likely driven by", "multi-vessel coronary disease",
           "reversible perfusion defect">>

(***************************************************************************)
(* Properties of get_top_features (PureSpec)                               *)
(***************************************************************************)
Ranked == call.op = "get_top_features" /\ call.done
RankedOk == Ranked /\ call.out.error = "none"

\* The place of a feature in the loaded feature-name list.
Place(f) == CHOOSE k \in 1..Len(call.feature_names) : call.feature_names[k] = f

\* The places of the features the result holds.
Returned == {Place(call.out.value[i].feature) : i \in 1..Len(call.out.value)}

\* C11: the result has min(top_n, number of features) entries, each a feature
\* of the list with its own value, no feature twice; the absolute
\* contributions do not increase from first to last; and no feature left out
\* has a larger absolute contribution than the last one returned.
C11_TopByMagnitude ==
    RankedOk =>
        LET v == call.out.value
            n == Len(call.feature_names)
        IN  /\ Len(v) = IF call.top_n < n THEN call.top_n ELSE n
            /\ \A i \in 1..Len(v) :
                 /\ \E k \in 1..n : v[i].feature = call.feature_names[k]
                 /\ v[i].shap_value = call.shap_row[Place(v[i].feature)]
                 /\ v[i].abs_contribution = Abs(v[i].shap_value)
            /\ Cardinality(Returned) = Len(v)
            /\ \A i \in 1..(Len(v) - 1) :
                 v[i].abs_contribution >= v[i + 1].abs_contribution
            /\ \A k \in (1..n) \ Returned :
                 Len(v) > 0 => Abs(call.shap_row[k]) <= v[Len(v)].abs_contribution

\* Two of three features have been returned, the larger first, a negative
\* value ahead of a smaller positive one.
C11_Witness ==
    /\ RankedOk /\ call.top_n = 2 /\ Len(call.shap_row) = Len(call.feature_names)
    /\ Len(call.out.value) = 2
    /\ call.out.value[1].shap_value < 0
    /\ call.out.value[2].shap_value > 0
    /\ call.out.value[1].abs_contribution > call.out.value[2].abs_contribution
    /\ \E k \in 1..Len(call.feature_names) : k \notin Returned

\* C12: features of equal absolute contribution keep the order of the
\* feature-name list, within the result and across the top_n cut.
C12_StableTies ==
    RankedOk =>
        LET v == call.out.value
        IN  /\ \A i, j \in 1..Len(v) :
                 (i < j /\ v[i].abs_contribution = v[j].abs_contribution) =>
                     Place(v[i].feature) < Place(v[j].feature)
            /\ \A i \in 1..Len(v) :
                 \A k \in (1..Len(call.feature_names)) \ Returned :
                     Abs(call.shap_row[k]) = v[i].abs_contribution =>
                         Place(v[i].feature) < k

\* A tie has been cut: a returned feature and a left-out one have the same
\* absolute contribution, with opposite signs.
C12_Witness ==
    /\ RankedOk /\ Len(call.out.value) > 0
    /\ \E k \in (1..Len(call.feature_names)) \ Returned :
          LET last == call.out.value[Len(call.out.value)]
          IN  /\ Abs(call.shap_row[k]) = last.abs_contribution
              /\ call.shap_row[k] # last.shap_value

\* C13: when the number of contribution values differs from the number of
\* feature names (more or fewer), get_top_features fails and returns no
\* attribution result.
C13_MismatchAborts ==
    (Ranked /\ Len(call.shap_row) # Len(call.feature_names)) =>
        call.out.error # "none"

(***************************************************************************)
(* Properties of the inputs of the core operations (PureSpec)              *)
(***************************************************************************)
Scaled == call.op = "scale_input" /\ call.done

\* C14: compute_auto_fields leaves the caller's patient record as it was (the
\* 13 raw fields with their values, no key added), also when it raises;
\* predict_proba and get_shap_values leave the caller's frame as it was and
\* write the scaled values into a copy in which every column outside the
\* numerical-feature list keeps its value.
C14_InputsUnchanged ==
    /\ Derived =>
         /\ call.out.caller = call.patient
         /\ DOMAIN call.out.caller = RawFields
    /\ Scaled =>
         /\ call.out.input_df = call.input_df
         /\ DOMAIN call.out.input_scaled = DOMAIN call.input_df
         /\ \A c \in DOMAIN call.input_df :
              IF c \in call.numerical_features
              THEN call.out.input_scaled[c] = Transform(call.scaler, call.input_df[c])
              ELSE call.out.input_scaled[c] = call.input_df[c]

\* A frame has been scaled in some columns and not in others.
C14_Witness ==
    /\ Scaled
    /\ call.numerical_features = {"age", "chol"}
    /\ call.out.input_scaled.age # call.input_df.age
    /\ call.out.input_scaled.trestbps = call.input_df.trestbps
    /\ call.out.input_df.age = call.input_df.age

\* C17: the tier named in the clinical summary is the risk_class returned
\* with it, for every probability.
C17_SummaryTierIsRiskClass ==
    Scored => call.out.clinical_summary.tier = call.out.risk_class

\* A summary was written for a probability on a tier boundary.
C17_Witness ==
    /\ Scored
    /\ call.probability = 3000
    /\ call.out.risk_class = "Moderate Risk"
    /\ call.out.clinical_summary.tier = "Moderate Risk"


(***************************************************************************)
(* Properties of a request in the API process (Spec)                       *)
(***************************************************************************)
\* The last request went through predict_heart_disease to its end.
Served == resp.route \in PredictionRoutes /\ resp.core = 1 /\ resp.status = 200

\* C15: a request that is served has scaled the derived vector once, with
\* one scaler, for the classifier and the attribution engine together.
C15_ScaledOnce == Served => Len(resp.body.scalings) = 1

\* C16: what /health reports agrees with the model_loaded flag that gates
\* /predict and /metrics: model_loaded in the body equals the flag and
\* status is "ok" exactly when the flag is set.
C16_HealthAgreesWithGate ==
    resp.route = "/health" =>
        /\ resp.body.model_loaded = model_loaded
        /\ (resp.body.status = "ok") <=> model_loaded

\* C18: a record accepted by PatientInput has 18 <= age <= 101 and
\* thalach <= (220 - age) + 20; when it reaches compute_auto_fields the
\* divisor 220 - age is at least 119, the derivation does not fail and
\* hr_achievement is positive.
C18_AcceptedRecordsDivide ==
    (resp.route \in PredictionRoutes /\ resp.status # 422) =>
        LET patient == resp.body.patient
        IN  /\ 18 <= patient.age /\ patient.age <= 101
            /\ patient.thalach <= (220 - patient.age) + 20
            /\ 220 - patient.age >= 119
            /\ resp.core = 1 =>
                 /\ resp.body.stage # "derive"
                 /\ resp.body.derived.error = "none"
                 /\ resp.body.derived.value.hr_achievement.den >= 119
                 /\ resp.body.derived.value.hr_achievement.num > 0

\* The oldest accepted patient at the highest accepted heart rate was served.
C18_Witness ==
    /\ Served
    /\ resp.body.patient.age = 101
    /\ resp.body.patient.thalach = 139
    /\ resp.body.derived.value.hr_achievement = TrueDiv(139, 119)

====
